---- MODULE Spec2Model ----
(***************************************************************************)
(* A model of the schema-driven bit-packing codec of src/main.rs:          *)
(* Schema::construct, Schema::to_buffer and Schema::from_buffer.           *)
(*                                                                         *)
(* The accumulators are i32 as in the source: shifts discard the bits      *)
(* that leave the 32-bit word, `|` and `&` act on two's complement, `>>`   *)
(* is arithmetic.  A Rust panic (index out of bounds, unwrap on None,      *)
(* arithmetic overflow under overflow checks) ends the call; the variable  *)
(* `panic` then holds the panic's kind.  Whether overflow is checked       *)
(* depends on the build profile, which is the variable overflow_checks.    *)
(*                                                                         *)
(* The inputs: declared fields carry distinct names (the value maps are    *)
(* keyed by name), Int bounds have min <= max and Bytes bounds max >= 0,   *)
(* and an entry of a value map is of its field's kind; an entry may be     *)
(* absent, and an Int entry may lie outside its field's range.             *)
(* to_buffer's total_buffers_length only sizes the result's capacity and   *)
(* Schema.int and Schema.bytes are never read: they are left out.          *)
(***************************************************************************)
EXTENDS Integers, Sequences, FiniteSets, TLC

\* ------------------------------------------------------------------ bounds

\* Longest declared field sequence.
MaxFields == 3
\* Longest payload of a Bytes value.
MaxPayloadLen == 2
\* Longest byte sequence handed to from_buffer other than an encoder output.
MaxInputLen == 2

\* ------------------------------------------------------- i32 arithmetic

I32Min == -2147483647 - 1

RECURSIVE Pow2(_)
Pow2(n) == IF n <= 0 THEN 1 ELSE 2 * Pow2(n - 1)

\* a << s on i32, 0 <= s <= 31: the bits shifted past bit 31 are discarded,
\* bit 31 of the result is its sign.
Shl(a, s) ==
    IF s = 0 THEN a
    ELSE LET low  == a % Pow2(31 - s)
             sign == (a \div Pow2(31 - s)) % 2
         IN  (IF s = 31 THEN 0 ELSE low * Pow2(s))
             + (IF sign = 1 THEN I32Min ELSE 0)

\* a >> s on i32 (arithmetic), 0 <= s <= 31.
Shr(a, s) ==
    IF s >= 31 THEN (IF a < 0 THEN -1 ELSE 0) ELSE a \div Pow2(s)

\* a | b on two's complement integers.
RECURSIVE BitOr(_, _)
BitOr(a, b) ==
    IF a = 0 THEN b
    ELSE IF b = 0 THEN a
    ELSE IF a = -1 \/ b = -1 THEN -1
    ELSE (IF a % 2 = 1 \/ b % 2 = 1 THEN 1 ELSE 0)
         + 2 * BitOr(a \div 2, b \div 2)

\* a & b on two's complement integers.
RECURSIVE BitAnd(_, _)
BitAnd(a, b) ==
    IF a = 0 \/ b = 0 THEN 0
    ELSE IF a = -1 THEN b
    ELSE IF b = -1 THEN a
    ELSE (IF a % 2 = 1 /\ b % 2 = 1 THEN 1 ELSE 0)
         + 2 * BitAnd(a \div 2, b \div 2)

\* ------------------------------------------------------- f32 arithmetic

\* floor(log2 x), x >= 1.
RECURSIVE FloorLog2(_)
FloorLog2(x) == IF x <= 1 THEN 0 ELSE 1 + FloorLog2(x \div 2)

\* `x as f32` for an i32 x >= 1: an f32 keeps 24 significant bits, the cast
\* rounds to the nearest representable value, ties to the even significand.
AsF32(x) ==
    LET e == FloorLog2(x)
    IN  IF e <= 23 THEN x
        ELSE LET ulp  == Pow2(e - 23)
                 q    == x \div ulp
                 r    == x % ulp
                 half == ulp \div 2
             IN  IF r < half THEN q * ulp
                 ELSE IF r > half THEN (q + 1) * ulp
                 ELSE IF q % 2 = 0 THEN q * ulp
                 ELSE (q + 1) * ulp

\* f32::log2(x).ceil() as i32 for an integer-valued f32 x >= 1.  log2 of
\* 2^k is k.  For 2^k < x < 2^(k+1) the f32 nearest to log2(x) is k itself
\* when log2(x) - k is below half an ulp of k: with m the 23-bit fraction
\* of x's significand, log2(x) - k ~ m * 2^-23 / ln 2, and the ulp of
\* k in 16..31 is 2^-19, so that is m <= 5 (no integer x has 0 < m <= 5
\* for k < 21).
Log2Ceil(x) ==
    LET k == FloorLog2(x)
        m == IF k <= 23 THEN (x - Pow2(k)) * Pow2(23 - k)
                        ELSE (x - Pow2(k)) \div Pow2(k - 23)
    IN  IF m = 0 THEN k
        ELSE IF k >= 16 /\ m <= 5 THEN k
        ELSE k + 1

\* ---------------------------------------------------------------- inputs

\* Field names, by declared position.
Names == <<"a", "b", "c", "d", "e", "f">>

IntSpec(lo, hi) == [kind |-> "Int", min |-> lo, max |-> hi]
BooleanSpec == [kind |-> "Boolean"]
BytesSpec(hi) == [kind |-> "Bytes", max |-> hi]

\* The declarations the model draws from: min <= max for Int, max >= 0 for
\* Bytes.  Int [5,5] is always-present, Int [-2,5] takes 3 bits, Int [0,255]
\* fills one byte exactly, Int [0,16777216] spans 2^24 + 1 values, Bytes 1000
\* (as in main) has a length prefix wider than one byte.
FieldSpecs ==
    { IntSpec(5, 5), IntSpec(-2, 5), IntSpec(0, 255), IntSpec(0, 16777216),
      BooleanSpec, BytesSpec(1000) }

RECURSIVE SeqsUpTo(_, _)
SeqsUpTo(S, n) ==
    IF n = 0 THEN { <<>> }
    ELSE LET shorter == SeqsUpTo(S, n - 1)
         IN  shorter \cup { Append(s, x) : s \in shorter, x \in S }

\* A declared field as construct receives it: name set, bits unresolved.
Declare(spec, i) ==
    IF spec.kind = "Int"
    THEN [kind |-> "Int", name |-> Names[i], min |-> spec.min, max |-> spec.max]
    ELSE IF spec.kind = "Boolean"
    THEN [kind |-> "Boolean", name |-> Names[i]]
    ELSE [kind |-> "Bytes", name |-> Names[i], max |-> spec.max]

Decls ==
    { [i \in 1..Len(s) |-> Declare(s[i], i)] :
        s \in SeqsUpTo(FieldSpecs, MaxFields) \ { <<>> } }

\* ------------------------------------------------------ Schema::construct

\* One iteration of construct's loop: the resolved field.
Resolve(f) ==
    IF f.kind = "Int"
    THEN LET normalized == f.max - f.min
             bits == Log2Ceil(AsF32(normalized + 1))
         IN  [kind |-> "Int", name |-> f.name, min |-> f.min, max |-> f.max,
              bits |-> bits, always_present |-> (bits = 0)]
    ELSE IF f.kind = "Boolean"
    THEN [kind |-> "Boolean", name |-> f.name, bits |-> 1]
    ELSE LET bits == Log2Ceil(AsF32(f.max + 1))
         IN  [kind |-> "Bytes", name |-> f.name, max |-> f.max, bits |-> bits]

\* The closure with its two tests in the other order: a Bytes/Bytes pair
\* then compares Less.
CompareBytesFirstOnRight(a, b) ==
    IF b.kind = "Bytes" THEN "Less"
    ELSE IF a.kind = "Bytes" THEN "Greater"
    ELSE "Equal"

\* The closure handed to sort_by.
Compare(a, b) ==
    IF a.kind = "Bytes" THEN "Greater"
    ELSE IF b.kind = "Bytes" THEN "Less"
    ELSE "Equal"

\* slice::sort_by is a stable sort that asks only whether
\* compare(later, earlier) is Less: insertion of x behind the elements it
\* is not less than.
RECURSIVE InsertTail(_, _)
InsertTail(s, x) ==
    IF s = <<>> THEN <<x>>
    ELSE IF Compare(x, s[Len(s)]) = "Less"
    THEN Append(InsertTail(SubSeq(s, 1, Len(s) - 1), x), s[Len(s)])
    ELSE Append(s, x)

RECURSIVE SortBy(_)
SortBy(s) ==
    IF s = <<>> THEN <<>>
    ELSE InsertTail(SortBy(SubSeq(s, 1, Len(s) - 1)), s[Len(s)])

RECURSIVE SumBits(_)
SumBits(s) == IF s = <<>> THEN 0 ELSE s[1].bits + SumBits(Tail(s))

\* ((max_bits / 8) as f32).ceil() as i32: the division is i32 division, so
\* the value cast and ceiled is already an integer.
MaxByteLength(max_bits) == AsF32(max_bits \div 8)

\* ------------------------------------------------------------------ values

IntValue(n) == [kind |-> "Int", val |-> n]
BooleanValue(b) == [kind |-> "Boolean", val |-> b]
BufferValue(bs) == [kind |-> "Buffer", val |-> bs]

\* Byte values the payloads are made of.
PayloadBytes == { 0, 7 }
\* Byte values of the inputs handed to from_buffer directly.
InputBytes == { 0, 1, 255 }

\* "NoEntry" stands for a name the caller's map has no entry for.
NoEntry == [kind |-> "NoEntry"]

\* The values tried for one field: for Int the bounds, their neighbours
\* inside and the first value outside on each side.
ValuesFor(f) ==
    { NoEntry } \cup
    ( IF f.kind = "Int"
      THEN { IntValue(n) : n \in { f.min - 1, f.min, f.min + 1, f.max, f.max + 1 } }
      ELSE IF f.kind = "Boolean"
      THEN { BooleanValue(b) : b \in BOOLEAN }
      ELSE { BufferValue(bs) : bs \in SeqsUpTo(PayloadBytes, MaxPayloadLen) } )

\* The caller's HashMap<&str, Value>: a function from the names that have
\* an entry.
ValueMaps(fs) ==
    LET names == { fs[i].name : i \in 1..Len(fs) }
        byName(n) == CHOOSE i \in 1..Len(fs) : fs[i].name = n
        all == { m \in [names -> UNION { ValuesFor(fs[i]) : i \in 1..Len(fs) }] :
                   \A n \in names : m[n] \in ValuesFor(fs[byName(n)]) }
    IN  { [n \in { x \in names : m[x] # NoEntry } |-> m[n]] : m \in all }

EmptyMap == [n \in {} |-> NoEntry]

\* HashMap::insert.
Insert(m, n, v) == [x \in DOMAIN m \cup { n } |-> IF x = n THEN v ELSE m[x]]

\* ------------------------------------------------------------------- state

VARIABLES
    overflow_checks,  \* the build profile: TRUE panics on overflow (debug)
    decl,             \* the fields handed to construct
    fields,           \* Schema.fields
    max_byte_length,  \* Schema.max_byte_length
    pc,               \* where the caller stands
    value,            \* to_buffer's argument
    i,                \* the loop index of to_buffer / from_buffer (from 1)
    int,              \* the bit accumulator
    written_bytes,    \* to_buffer: pending bits
    bytes,            \* to_buffer: the fixed-width bytes emitted
    buffers,          \* to_buffer: the deferred payloads
    byte_array,       \* to_buffer's result
    buffer,           \* from_buffer's argument
    from_encoder,     \* whether buffer is byte_array
    read_bits,        \* from_buffer: pending bits
    buffer_index,     \* from_buffer: the read cursor (from 0)
    decoded,          \* from_buffer's result map (`value` in the source)
    panic             \* "none", or the kind of the panic that ended the call

vars == << overflow_checks, decl, fields, max_byte_length, pc, value, i, int,
           written_bytes, bytes, buffers, byte_array, buffer, from_encoder,
           read_bits, buffer_index, decoded, panic >>

schemaVars == << overflow_checks, decl, fields, max_byte_length >>
encVars == << value, written_bytes, bytes, buffers, byte_array >>
decVars == << buffer, from_encoder, read_bits, buffer_index, decoded >>

Init ==
    /\ overflow_checks \in BOOLEAN
    /\ decl \in Decls
    /\ fields = <<>>
    /\ max_byte_length = 0
    /\ pc = "declared"
    /\ value = EmptyMap
    /\ i = 0
    /\ int = 0
    /\ written_bytes = 0
    /\ bytes = <<>>
    /\ buffers = <<>>
    /\ byte_array = <<>>
    /\ buffer = <<>>
    /\ from_encoder = FALSE
    /\ read_bits = 0
    /\ buffer_index = 0
    /\ decoded = EmptyMap
    /\ panic = "none"

\* Schema::construct.
Construct ==
    /\ pc = "declared"
    /\ LET v == [k \in 1..Len(decl) |-> Resolve(decl[k])]
       IN  /\ fields' = SortBy(v)
           /\ max_byte_length' = MaxByteLength(SumBits(v))
    /\ pc' = "ready"
    /\ UNCHANGED << overflow_checks, decl, i, int, panic >>
    /\ UNCHANGED encVars
    /\ UNCHANGED decVars

\* ------------------------------------------------------ Schema::to_buffer

\* acc |= x << written_bytes.  A shift amount outside 0..31 overflows:
\* a panic under overflow checks, else the amount is taken modulo 32.
ShiftOverflows(amount) == amount < 0 \/ amount > 31

OrShifted(acc, x, amount) == BitOr(acc, Shl(x, amount % 32))

\* while written_bytes >= 8 && int > 0 { push; int >>= 8; written_bytes -= 8 }
RECURSIVE Flush(_)
Flush(st) ==
    IF st.written_bytes >= 8 /\ st.int > 0
    THEN Flush([int |-> Shr(st.int, 8),
                written_bytes |-> st.written_bytes - 8,
                bytes |-> Append(st.bytes, BitAnd(st.int, 255))])
    ELSE st

\* while written_bytes > 0 && int > 0 { push; int >>= 8; written_bytes -= 8 }
RECURSIVE FinalFlush(_)
FinalFlush(st) ==
    IF st.written_bytes > 0 /\ st.int > 0
    THEN FinalFlush([int |-> Shr(st.int, 8),
                     written_bytes |-> st.written_bytes - 8,
                     bytes |-> Append(st.bytes, BitAnd(st.int, 255))])
    ELSE st

\* Vec::insert(index, element), index from 0.
VecInsert(v, index, element) ==
    SubSeq(v, 1, index) \o << element >> \o SubSeq(v, index + 1, Len(v))

\* for j in 0..buffer.len() { byte_array.insert(base + j, buffer[j]) }
RECURSIVE InsertBuffer(_, _, _, _)
InsertBuffer(arr, base, buf, j) ==
    IF j >= Len(buf) THEN arr
    ELSE InsertBuffer(VecInsert(arr, base + j, buf[j + 1]), base, buf, j + 1)

\* for i in 0..buffers.len() { ... }
RECURSIVE InsertBuffers(_, _, _, _)
InsertBuffers(arr, base, bufs, k) ==
    IF k > Len(bufs) THEN arr
    ELSE InsertBuffers(InsertBuffer(arr, base, bufs[k], 0), base, bufs, k + 1)

\* The part of a field's iteration before the flush: whether the value's
\* variant matches the field's (the `if let`), what is then shifted in, by
\* how many bits the pending count advances, and the payload deferred.
Contribution(f, v) ==
    IF f.kind = "Int" /\ v.kind = "Int"
    THEN [matched |-> TRUE, x |-> v.val - f.min, bits |-> f.bits,
          push |-> FALSE, buf |-> << >>]
    ELSE IF f.kind = "Boolean" /\ v.kind = "Boolean"
    THEN [matched |-> TRUE, x |-> IF v.val THEN 1 ELSE 0, bits |-> 1,
          push |-> FALSE, buf |-> << >>]
    ELSE IF f.kind = "Bytes" /\ v.kind = "Buffer"
    THEN [matched |-> TRUE, x |-> Len(v.val), bits |-> f.bits,
          push |-> TRUE, buf |-> v.val]
    ELSE [matched |-> FALSE, x |-> 0, bits |-> 0, push |-> FALSE, buf |-> << >>]

\* The call: the locals take their initial values.
ToBuffer ==
    /\ pc = "ready"
    /\ \E m \in ValueMaps(fields) : value' = m
    /\ pc' = "encoding"
    /\ i' = 1
    /\ int' = 0
    /\ written_bytes' = 0
    /\ bytes' = <<>>
    /\ buffers' = <<>>
    /\ byte_array' = <<>>
    /\ panic' = "none"
    /\ UNCHANGED schemaVars
    /\ UNCHANGED decVars

\* One iteration of the loop over self.fields, its flush included.
EncodeField ==
    /\ pc = "encoding"
    /\ i <= Len(fields)
    /\ LET f == fields[i]
       IN  IF f.name \notin DOMAIN value
           THEN \* value.get(name).unwrap() on None
                /\ panic' = "unwrap_none"
                /\ pc' = "panicked"
                /\ UNCHANGED << i, int, written_bytes, bytes, buffers >>
           ELSE LET c == Contribution(f, value[f.name])
                IN  IF c.matched /\ ShiftOverflows(written_bytes) /\ overflow_checks
                    THEN /\ panic' = "shift_overflow"
                         /\ pc' = "panicked"
                         /\ UNCHANGED << i, int, written_bytes, bytes, buffers >>
                    ELSE LET st == Flush([int |-> OrShifted(int, c.x, written_bytes),
                                          written_bytes |-> written_bytes + c.bits,
                                          bytes |-> bytes])
                         IN  /\ int' = st.int
                             /\ written_bytes' = st.written_bytes
                             /\ bytes' = st.bytes
                             /\ buffers' = IF c.push THEN Append(buffers, c.buf)
                                                     ELSE buffers
                             /\ i' = i + 1
                             /\ UNCHANGED << pc, panic >>
    /\ UNCHANGED schemaVars
    /\ UNCHANGED << value, byte_array >>
    /\ UNCHANGED decVars

\* After the loop: the last flush, then the result is put together.
EncodeReturn ==
    /\ pc = "encoding"
    /\ i > Len(fields)
    /\ LET st == FinalFlush([int |-> int, written_bytes |-> written_bytes,
                             bytes |-> bytes])
           fixed == [k \in 1..Len(st.bytes) |-> st.bytes[k] % 256]
       IN  /\ int' = st.int
           /\ written_bytes' = st.written_bytes
           /\ bytes' = st.bytes
           /\ byte_array' = InsertBuffers(fixed, Len(st.bytes), buffers, 1)
    /\ pc' = "encoded"
    /\ UNCHANGED schemaVars
    /\ UNCHANGED << value, buffers, i, panic >>
    /\ UNCHANGED decVars

\* ---------------------------------------------------- Schema::from_buffer

\* while read_bits < bits { int |= buffer[buffer_index] << read_bits; ... }
\* `oob` is set when buffer_index is not an index of the buffer, `shift`
\* when the shift amount overflows under overflow checks.
RECURSIVE TopUp(_, _, _, _)
TopUp(st, bits, buf, checks) ==
    IF st.read_bits >= bits THEN st
    ELSE IF st.buffer_index >= Len(buf) THEN [st EXCEPT !.oob = TRUE]
    ELSE IF ShiftOverflows(st.read_bits) /\ checks THEN [st EXCEPT !.shift = TRUE]
    ELSE TopUp([int |-> OrShifted(st.int, buf[st.buffer_index + 1], st.read_bits),
                read_bits |-> st.read_bits + 8,
                buffer_index |-> st.buffer_index + 1,
                oob |-> FALSE, shift |-> FALSE],
               bits, buf, checks)

\* (1 << bits) - 1
Mask(bits) == Shl(1, bits % 32) - 1

\* The inputs handed to from_buffer that no to_buffer call produced.
ArbitraryInputs == SeqsUpTo(InputBytes, MaxInputLen)

\* The statements before the loop, for the argument buf.
FromBufferCall(buf, encoded) ==
    /\ buffer' = buf
    /\ from_encoder' = encoded
    /\ decoded' = EmptyMap
    /\ i' = 1
    /\ IF Len(buf) = 0
       THEN \* buffer[0]
            /\ panic' = "index_out_of_bounds"
            /\ pc' = "panicked"
            /\ UNCHANGED << int, read_bits, buffer_index >>
       ELSE /\ int' = buf[1]
            /\ read_bits' = 8
            /\ buffer_index' = 1
            /\ panic' = "none"
            /\ pc' = "decoding"
    /\ UNCHANGED schemaVars
    /\ UNCHANGED encVars

\* from_buffer on what to_buffer returned.
FromBufferEncoded ==
    /\ pc = "encoded"
    /\ FromBufferCall(byte_array, TRUE)

\* from_buffer on any other byte sequence.
FromBufferArbitrary ==
    /\ pc = "ready"
    /\ \E buf \in ArbitraryInputs : FromBufferCall(buf, FALSE)

\* One iteration of the loop over the fields.
DecodeField ==
    /\ pc = "decoding"
    /\ i <= Len(fields)
    /\ LET f == fields[i]
       IN  IF f.kind = "Int" /\ f.always_present
           THEN /\ decoded' = Insert(decoded, f.name, IntValue(f.min))
                /\ i' = i + 1
                /\ UNCHANGED << int, read_bits, buffer_index, pc, panic >>
           ELSE LET st == TopUp([int |-> int, read_bits |-> read_bits,
                                 buffer_index |-> buffer_index,
                                 oob |-> FALSE, shift |-> FALSE],
                                f.bits, buffer, overflow_checks)
                    low == BitAnd(st.int, Mask(f.bits))
                IN  /\ buffer_index' = st.buffer_index
                    /\ IF st.oob \/ st.shift
                       THEN /\ panic' = IF st.oob THEN "index_out_of_bounds"
                                                  ELSE "shift_overflow"
                            /\ pc' = "panicked"
                            /\ int' = st.int
                            /\ read_bits' = st.read_bits
                            /\ UNCHANGED << decoded, i >>
                       ELSE /\ int' = Shr(st.int, f.bits)
                            /\ read_bits' = st.read_bits - f.bits
                            /\ IF f.kind = "Int"
                               THEN /\ decoded' = Insert(decoded, f.name,
                                                         IntValue(low + f.min))
                                    /\ i' = i + 1
                                    /\ UNCHANGED << pc, panic >>
                               ELSE IF f.kind = "Boolean"
                               THEN /\ decoded' = Insert(decoded, f.name,
                                          BooleanValue(BitAnd(st.int, 1) = 1))
                                    /\ i' = i + 1
                                    /\ UNCHANGED << pc, panic >>
                               ELSE IF low > Len(buffer)
                               THEN \* buffer.len() - length, as usize: a panic on
                                    \* the subtraction under overflow checks, else
                                    \* on the slice, whose start wrapped past its end
                                    /\ panic' = IF overflow_checks
                                                THEN "subtract_overflow"
                                                ELSE "slice_index_out_of_range"
                                    /\ pc' = "panicked"
                                    /\ UNCHANGED << decoded, i >>
                               ELSE /\ decoded' = Insert(decoded, f.name,
                                          BufferValue(SubSeq(buffer,
                                              Len(buffer) - low + 1, Len(buffer))))
                                    /\ i' = i + 1
                                    /\ UNCHANGED << pc, panic >>
    /\ UNCHANGED schemaVars
    /\ UNCHANGED encVars
    /\ UNCHANGED << buffer, from_encoder >>

\* The loop is over: the map is returned.
DecodeReturn ==
    /\ pc = "decoding"
    /\ i > Len(fields)
    /\ pc' = "decoded"
    /\ UNCHANGED schemaVars
    /\ UNCHANGED encVars
    /\ UNCHANGED decVars
    /\ UNCHANGED << i, int, panic >>

Next ==
    \/ Construct
    \/ ToBuffer
    \/ EncodeField
    \/ EncodeReturn
    \/ FromBufferEncoded
    \/ FromBufferArbitrary
    \/ DecodeField
    \/ DecodeReturn

Spec == Init /\ [][Next]_vars

\* The resolver alone.
SpecConstruct == Init /\ [][Construct]_vars

\* ------------------------------------------------------------ properties

\* The value map holds, for every field, a value of the field's kind inside
\* the declared range.
ValuesInRange ==
    /\ fields # <<>>
    /\ \A k \in 1..Len(fields) :
         LET f == fields[k]
         IN  /\ f.name \in DOMAIN value
             /\ f.kind = "Int" =>
                  /\ value[f.name].kind = "Int"
                  /\ f.min <= value[f.name].val
                  /\ value[f.name].val <= f.max
             /\ f.kind = "Boolean" => value[f.name].kind = "Boolean"
             /\ f.kind = "Bytes" =>
                  /\ value[f.name].kind = "Buffer"
                  /\ Len(value[f.name].val) <= f.max

SameValue(v, w) == v.kind = w.kind /\ v.val = w.val

IsBytes(f) == f.kind = "Bytes"
IsFixed(f) == f.kind # "Bytes"

NameOf(s) == [k \in 1..Len(s) |-> s[k].name]

\* The least n >= 0 with 2^n >= x, for 1 <= x <= 2^30.
LeastBits(x) == CHOOSE n \in 0..30 : Pow2(n) >= x /\ (n = 0 \/ Pow2(n - 1) < x)

RECURSIVE Concat(_)
Concat(ss) == IF ss = <<>> THEN <<>> ELSE ss[1] \o Concat(Tail(ss))

\* C1: decoding what to_buffer returned for in-range values completes and
\* binds every field name to the value that was encoded.
C1_RoundTrip ==
    ValuesInRange =>
        /\ pc # "panicked"
        /\ (pc = "decoded" /\ from_encoder) =>
             \A k \in 1..Len(fields) :
                /\ fields[k].name \in DOMAIN decoded
                /\ SameValue(decoded[fields[k].name], value[fields[k].name])

\* C2: with exactly one Bytes field and in-range values, the decoder reads
\* its bits from the fixed-width bytes only and returns the payload that was
\* encoded.
C2_BytesRoundTrip ==
    ( /\ ValuesInRange
      /\ from_encoder
      /\ Cardinality({ k \in 1..Len(fields) : IsBytes(fields[k]) }) = 1 ) =>
        LET b == fields[CHOOSE k \in 1..Len(fields) : IsBytes(fields[k])]
        IN  /\ buffer_index <= Len(bytes)
            /\ panic = "none"
            /\ pc = "decoded" => SameValue(decoded[b.name], value[b.name])

\* C3: to_buffer does not fail for want of an entry for an always-present
\* Int field.
C3_AlwaysPresentNotLookedUp ==
    ~ ( /\ pc = "panicked"
        /\ panic = "unwrap_none"
        /\ fields[i].kind = "Int"
        /\ fields[i].always_present )

\* Some Int field's entry lies outside the field's declared range.
SomeIntOutOfRange ==
    \E k \in 1..Len(fields) :
        /\ fields[k].kind = "Int"
        /\ fields[k].name \in DOMAIN value
        /\ value[fields[k].name].kind = "Int"
        /\ \/ value[fields[k].name].val < fields[k].min
           \/ value[fields[k].name].val > fields[k].max

\* C4: to_buffer returns no byte sequence when an Int value is outside its
\* declared range.
C4_OutOfRangeRejected == SomeIntOutOfRange => pc \notin { "encoded", "decoding", "decoded" }

\* C5: from_buffer never indexes its input at or past its length and never
\* takes a slice that starts before index 0.
C5_NoOutOfBoundsRead ==
    panic \notin { "index_out_of_bounds", "subtract_overflow",
                   "slice_index_out_of_range" }

\* C6: the resolved fields are the declared non-Bytes fields in declaration
\* order followed by the declared Bytes fields in declaration order.
C6_OrderingLaw ==
    pc = "ready" =>
        /\ NameOf(fields) = NameOf(SelectSeq(decl, IsFixed)) \o NameOf(SelectSeq(decl, IsBytes))
        /\ \A k \in 1..Len(fields) :
             \E j \in 1..Len(decl) :
                /\ decl[j].name = fields[k].name
                /\ decl[j].kind = fields[k].kind

\* Two Bytes fields are declared ahead of a fixed-width field, and the
\* schema is resolved.
C6_Witness ==
    /\ pc = "ready"
    /\ Len(decl) = 3
    /\ IsBytes(decl[1]) /\ IsBytes(decl[2]) /\ IsFixed(decl[3])
    /\ NameOf(fields) = << "c", "a", "b" >>

\* C7: an Int field resolves to the least n with 2^n >= max - min + 1 and is
\* always-present exactly when min = max; a Bytes field resolves to the
\* least n with 2^n >= max + 1.
C7_BitWidthLaw ==
    pc = "ready" =>
        \A k \in 1..Len(fields) :
            LET f == fields[k]
            IN  /\ f.kind = "Int" =>
                     /\ f.bits = LeastBits(f.max - f.min + 1)
                     /\ f.always_present = (f.min = f.max)
                /\ f.kind = "Bytes" => f.bits = LeastBits(f.max + 1)

\* C8: max_byte_length is the sum of the resolved bits divided by 8,
\* rounded up.
C8_MaxByteLength ==
    pc = "ready" => max_byte_length = (SumBits(fields) + 7) \div 8

\* C9: to_buffer returns the fixed-width bytes followed by the payloads of
\* the Bytes fields in resolved field order.
C9_PayloadOrder ==
    pc = "encoded" =>
        LET bs == SelectSeq(fields, IsBytes)
        IN  byte_array = bytes \o Concat([k \in 1..Len(bs) |-> value[bs[k].name].val])

\* C10: with in-range values, fewer than 8 bits are pending after the flush
\* that follows each field, and with every field at most 24 bits wide no
\* shift amount reaches the accumulator's 32 bits.
C10_FlushInvariant ==
    ValuesInRange =>
        /\ pc = "encoding" => written_bytes < 8
        /\ (\A k \in 1..Len(fields) : fields[k].bits <= 24) =>
               panic # "shift_overflow"

====
